---- MODULE Spec2Model ----
(***************************************************************************)
(* A model of mcp-esa-server: the esa.io API client (esa_client.py) and    *)
(* the six MCP tools built on it (server.py).                              *)
(*                                                                         *)
(* One tool invocation runs at a time.  An invocation is split where the   *)
(* code blocks on the HTTP round trip: the tool action runs the handler up *)
(* to session.request(...), the reply actions run the rest of the client   *)
(* method and of the tool.                                                 *)
(***************************************************************************)
EXTENDS Integers, Sequences, FiniteSets, TLC

VARIABLES
    pc,             \* "import" | "idle" | "waiting" | "done"
    esa_token,      \* server.esa_token: os.getenv("ESA_TOKEN")
    esa_team_name,  \* server.esa_team_name: os.getenv("ESA_TEAM_NAME")
    esa_client,     \* server.esa_client: Unbound, None or an EsaClient
    call,           \* the tool invocation in progress: [op, args], or NoCall
    client_calls,   \* the EsaClient method calls this invocation made
    http,           \* the session.request(...) calls this invocation made
    reply,          \* what the transport answered to the request, or NoReply
    json_calls,     \* how many times response.json() ran in this invocation
    client_out,     \* Pending, or what the client method returned or raised
    outcome,        \* Pending, or what the call returned or raised
    log,            \* the error and warning records this invocation logged
    remote,         \* the remote service's posts, and the number it assigns next
    prev,           \* the caller's previous call and what it got from it
    threads         \* the tool invocations the host runs side by side

vars == <<pc, esa_token, esa_team_name, esa_client, call, client_calls, http,
          reply, json_calls, client_out, outcome, log, remote, prev, threads>>

(***************************************************************************)
(* Bounds of the model.                                                    *)
(***************************************************************************)
MaxPostNumber == 1
MaxPage == 1

(***************************************************************************)
(* Python values, tagged with their type.                                  *)
(***************************************************************************)
None == [t |-> "none"]
PyStr(s) == [t |-> "str", v |-> s]
PyInt(i) == [t |-> "int", v |-> i]
PyBool(b) == [t |-> "bool", v |-> b]
PyList(l) == [t |-> "list", v |-> l]
PyDict(d) == [t |-> "dict", v |-> d]
EmptyDict == PyDict([k \in {} |-> None])

\* bool(v): the truth value Python's `if v:` and `not v` test.
Truthy(val) ==
    CASE val.t = "none" -> FALSE
      [] val.t = "str"  -> val.v # ""
      [] val.t = "int"  -> val.v # 0
      [] val.t = "bool" -> val.v
      [] val.t = "list" -> val.v # <<>>
      [] val.t = "dict" -> DOMAIN val.v # {}
      [] OTHER          -> TRUE

\* {k: v for k, v in payload.items() if v is not None}
StripNone(d) == [k \in {x \in DOMAIN d : d[x] # None} |-> d[k]]

\* `sub in s` for two strings.
Contains(s, sub) ==
    \E i \in 1..(Len(s) - Len(sub) + 1) : SubSeq(s, i, i + Len(sub) - 1) = sub

(***************************************************************************)
(* Exceptions: the class, str(e) and __cause__.                            *)
(***************************************************************************)
NoCause == [kind |-> "None"]
Exc(kind, msg, cause) == [kind |-> kind, msg |-> msg, cause |-> cause]

\* The exception classes of the transport layer (requests.exceptions.*).
TransportKinds == {"ConnectionError", "HTTPError", "JSONDecodeError"}

(***************************************************************************)
(* The HTTP transport (requests.Session): what one session.request(...)    *)
(* call is given and what it may answer.                                   *)
(***************************************************************************)
NoKwargs == [k \in {} |-> None]
Request(method, url, kwargs) == [method |-> method, url |-> url, kwargs |-> kwargs]

EmptyBody == [t |-> "empty"]
JsonBody(val) == [t |-> "json", v |-> val]
Response(status, body) == [t |-> "response", status |-> status, body |-> body]
Raised(e) == [t |-> "raised", exc |-> e]
NoReply == [t |-> "none"]

\* The JSON documents a response body may hold.
JsonValues ==
    { PyDict([url |-> PyStr("https://t.esa.io/posts/1"), name |-> PyStr("T")]),
      PyDict([posts |-> None]),
      PyList(<<>>),
      None }

Statuses == {200, 204, 304, 404, 500}
Bodies == {EmptyBody} \cup {JsonBody(j) : j \in JsonValues}
Responses == {Response(s, b) : s \in Statuses, b \in Bodies}

\* session.request(...) raising instead of answering: a requests exception
\* (no connection) or any other exception.
TransportFailures ==
    { Exc("ConnectionError", "Connection refused", NoCause),
      Exc("Exception", "API Error", NoCause) }

\* isinstance(e, requests.exceptions.RequestException)
IsRequestException(e) == e.kind \in TransportKinds

\* response.raise_for_status(): HTTPError for 4xx and 5xx, nothing otherwise.
HTTPError(status, url) ==
    Exc("HTTPError",
        ToString(status)
          \o (IF status < 500 THEN " Client Error" ELSE " Server Error")
          \o " for url: " \o url,
        NoCause)
raise_for_status(status) == 400 <= status /\ status < 600

\* response.json(): the parsed body, or JSONDecodeError for a body that is no JSON.
JSONDecodeError ==
    Exc("JSONDecodeError", "Expecting value: line 1 column 1 (char 0)", NoCause)
json_parses(body) == body.t = "json"

(***************************************************************************)
(* Log records: logger.error / logger.warning calls.                       *)
(***************************************************************************)
LogRec(logger, level, msg) == [logger |-> logger, level |-> level, msg |-> msg]

(***************************************************************************)
(* What a call returns or raises.                                          *)
(***************************************************************************)
Pending == [kind |-> "pending"]
Return(val) == [kind |-> "return", value |-> val]
Raise(e) == [kind |-> "raise", exc |-> e]

\* The rest of a client method once the transport answered: what it returns or
\* raises, how often it called response.json(), and what it logged.
Done(out, parsed, logged) == [outcome |-> out, json_calls |-> parsed, log |-> logged]

(***************************************************************************)
(* esa_client.py: class EsaClient.                                         *)
(***************************************************************************)
\* Mutant: the constructor testing `is None` instead of `not ...`, so that an
\* empty token or team name is accepted.
EsaClient_init_accepts_empty(token, team_name) ==
    IF token = None
    THEN [kind |-> "raise", exc |-> [kind |-> "ValueError", msg |-> "ESA_TOKEN is required",
                                     cause |-> [kind |-> "None"]]]
    ELSE IF team_name = None
    THEN [kind |-> "raise", exc |-> [kind |-> "ValueError", msg |-> "ESA_TEAM_NAME is required",
                                     cause |-> [kind |-> "None"]]]
    ELSE [kind |-> "return",
          value |-> [t |-> "EsaClient",
                     token |-> token.v,
                     team_name |-> team_name.v,
                     base_url |-> "https://api.esa.io/v1/teams/" \o team_name.v,
                     headers |-> ("Authorization" :> ("Bearer " \o token.v))
                                 @@ ("Content-Type" :> "application/json")]]

\* EsaClient.__init__(token, team_name): the constructed client, or the
\* ValueError the constructor raises.
EsaClient_init(token, team_name) ==
    IF ~Truthy(token)
    THEN Raise(Exc("ValueError", "ESA_TOKEN is required", NoCause))
    ELSE IF ~Truthy(team_name)
    THEN Raise(Exc("ValueError", "ESA_TEAM_NAME is required", NoCause))
    ELSE Return([t |-> "EsaClient",
                 token |-> token.v,
                 team_name |-> team_name.v,
                 base_url |-> "https://api.esa.io/v1/teams/" \o team_name.v,
                 headers |-> ("Authorization" :> ("Bearer " \o token.v))
                             @@ ("Content-Type" :> "application/json")])

\* What the constructor logs before it raises.
EsaClient_init_log(token, team_name) ==
    IF ~Truthy(token)
    THEN <<LogRec("esa_client", "error", "Token is required but was not provided.")>>
    ELSE IF ~Truthy(team_name)
    THEN <<LogRec("esa_client", "error", "Team name is required but was not provided.")>>
    ELSE <<>>

\* _request, up to the round trip: session.request(method, base_url + path, **kwargs).
_request(self, method, path, kwargs) ==
    Request(method, self.base_url \o path, kwargs)

\* Mutant: _request returning None for a body that is no JSON, without parsing it.
_request_return_empty_as_none(req, r) ==
    LET caught(e) ==
            Done(Raise(e), 0,
                 <<LogRec("esa_client", "error",
                          (IF IsRequestException(e)
                           THEN "Request failed: "
                           ELSE "An unexpected error occurred: ") \o e.msg)>>)
    IN  IF r.t = "raised" THEN caught(r.exc)
        ELSE IF raise_for_status(r.status) THEN caught(HTTPError(r.status, req.url))
        ELSE IF json_parses(r.body) THEN Done(Return(r.body.v), 1, <<>>)
        ELSE Done(Return([t |-> "none"]), 0, <<>>)

\* _request, from the transport's answer `r` to request `req` on: the status
\* check, the JSON parse, and the two except clauses that log and re-raise.
_request_return(req, r) ==
    LET caught(e) ==
            Done(Raise(e), 0,
                 <<LogRec("esa_client", "error",
                          (IF IsRequestException(e)
                           THEN "Request failed: "
                           ELSE "An unexpected error occurred: ") \o e.msg)>>)
    IN  IF r.t = "raised" THEN caught(r.exc)
        ELSE IF raise_for_status(r.status) THEN caught(HTTPError(r.status, req.url))
        ELSE IF json_parses(r.body) THEN Done(Return(r.body.v), 1, <<>>)
        ELSE [caught(JSONDecodeError) EXCEPT !.json_calls = 1]

\* Mutant: get_user sending its request through _request, under the team's URL.
get_user_via_request(self) == _request(self, "GET", "/user", NoKwargs)

\* get_user, up to the round trip.
get_user(self) == Request("GET", "https://api.esa.io/v1/user", NoKwargs)

\* Mutant: get_user checking the status only and returning None, as delete_post does.
get_user_return_unparsed(req, r) ==
    IF r.t = "raised" THEN Done(Raise(r.exc), 0, <<>>)
    ELSE IF raise_for_status(r.status)
    THEN Done(Raise(HTTPError(r.status, req.url)), 0, <<>>)
    ELSE Done(Return([t |-> "none"]), 0, <<>>)

\* get_user, from the transport's answer on.
get_user_return(req, r) ==
    LET caught(e) ==
            Done(Raise(e), 0,
                 <<LogRec("esa_client", "error",
                          (IF IsRequestException(e)
                           THEN "Request failed for " \o req.url \o ": "
                           ELSE "An unexpected error occurred during get_user: ")
                          \o e.msg)>>)
    IN  IF r.t = "raised" THEN caught(r.exc)
        ELSE IF raise_for_status(r.status) THEN caught(HTTPError(r.status, req.url))
        ELSE IF json_parses(r.body) THEN Done(Return(r.body.v), 1, <<>>)
        ELSE [caught(JSONDecodeError) EXCEPT !.json_calls = 1]

\* The params dict get_posts builds from its three arguments.
get_posts_params(q, page, per_page) ==
    LET given == [q |-> q, page |-> page, per_page |-> per_page]
    IN  [k \in {x \in DOMAIN given : Truthy(given[x])} |-> given[k]]

get_posts(self, q, page, per_page) ==
    _request(self, "GET", "/posts",
             [params |-> PyDict(get_posts_params(q, page, per_page))])

\* Mutant: get_post asking for the collection, the post number left out of the path.
get_post_unnumbered(self, post_number) ==
    _request(self, "GET", "/posts", NoKwargs)

get_post(self, post_number) ==
    _request(self, "GET", "/posts/" \o ToString(post_number.v), NoKwargs)

\* Mutant: create_post sending the payload as the body, not wrapped under "post".
create_post_unwrapped(self, payload) ==
    _request(self, "POST", "/posts", [json |-> payload])

create_post(self, payload) ==
    _request(self, "POST", "/posts", [json |-> PyDict([post |-> payload])])

\* Mutant: update_post replacing the post with PUT and the bare payload.
update_post_put(self, post_number, payload) ==
    _request(self, "PUT", "/posts/" \o ToString(post_number.v), [json |-> payload])

update_post(self, post_number, payload) ==
    _request(self, "PATCH", "/posts/" \o ToString(post_number.v),
             [json |-> PyDict([post |-> payload])])

\* delete_post, up to the round trip: session.request directly, not _request.
delete_post(self, post_number) ==
    Request("DELETE", self.base_url \o "/posts/" \o ToString(post_number.v), NoKwargs)

\* Mutant: delete_post finished by _request's code, which parses the body.
delete_post_return_parsing(req, r) ==
    IF r.t = "raised" THEN Done(Raise(r.exc), 0, <<>>)
    ELSE IF raise_for_status(r.status)
    THEN Done(Raise(HTTPError(r.status, req.url)), 0, <<>>)
    ELSE IF json_parses(r.body) THEN Done(Return(r.body.v), 1, <<>>)
    ELSE Done(Raise(JSONDecodeError), 1, <<>>)

\* Mutant: delete_post taking a 404 as done, the post being gone either way.
delete_post_return_idempotent(req, r) ==
    IF r.t = "raised" THEN Done(Raise(r.exc), 0, <<>>)
    ELSE IF raise_for_status(r.status) /\ r.status # 404
    THEN Done(Raise(HTTPError(r.status, req.url)), 0, <<>>)
    ELSE Done(Return(None), 0, <<>>)

\* delete_post, from the transport's answer on: the status check, then None.
\* No except clause, no log record, no response.json().
delete_post_return(req, r) ==
    IF r.t = "raised" THEN Done(Raise(r.exc), 0, <<>>)
    ELSE IF raise_for_status(r.status)
    THEN Done(Raise(HTTPError(r.status, req.url)), 0, <<>>)
    ELSE Done(Return(None), 0, <<>>)

\* A client method call: the method, its keyword arguments as the caller gave them.
ClientCall(method, args) == [method |-> method, args |-> args]

\* Python's binding of a keyword argument left out to its default.
Arg(args, name, default) == IF name \in DOMAIN args THEN args[name] ELSE default

\* The request client call `c` sends.
ClientSend(self, c) ==
    CASE c.method = "get_user"    -> get_user(self)
      [] c.method = "get_posts"   ->
            get_posts(self, Arg(c.args, "q", None), Arg(c.args, "page", None),
                      Arg(c.args, "per_page", None))
      [] c.method = "get_post"    -> get_post(self, c.args["post_number"])
      [] c.method = "create_post" -> create_post(self, c.args["payload"])
      [] c.method = "update_post" ->
            update_post(self, c.args["post_number"], c.args["payload"])
      [] c.method = "delete_post" -> delete_post(self, c.args["post_number"])

\* What client call `c` does with the transport's answer `r` to its request.
ClientReturn(c, req, r) ==
    CASE c.method = "get_user"    -> get_user_return(req, r)
      [] c.method = "delete_post" -> delete_post_return(req, r)
      [] OTHER                    -> _request_return(req, r)

(***************************************************************************)
(* server.py: the six MCP tools.  Each tool is two operators: the handler  *)
(* up to its client call (or to its end, when it makes none), and the      *)
(* handler from the client call's return or raise on.                      *)
(***************************************************************************)
\* The handler ended without a client call.
Finished(out, logged) == [calls |-> FALSE, outcome |-> out, log |-> logged]
\* The handler calls the client.
Calls(c) == [calls |-> TRUE, c |-> c]

ServerError(msg) == LogRec("server", "error", msg)

\* if esa_client is None: logger.error(...); raise RuntimeError("EsaClient not initialized")
NotInitialized(what) ==
    Finished(Raise(Exc("RuntimeError", "EsaClient not initialized", NoCause)),
             <<ServerError("EsaClient is not initialized. Cannot " \o what)>>)

\* Mutant: the wrapper raised without `from e`, so that the cause is lost.
Wrapped_without_cause(prefix, logPrefix, e) ==
    Done(Raise(Exc("RuntimeError", prefix \o e.msg, NoCause)), 0,
         <<ServerError(logPrefix \o e.msg)>>)

\* except Exception as e: logger.error(...); raise RuntimeError(f"{prefix}{e}") from e
Wrapped(prefix, logPrefix, e) ==
    Done(Raise(Exc("RuntimeError", prefix \o e.msg, e)), 0,
         <<ServerError(logPrefix \o e.msg)>>)

\* type(v).__name__
TypeName(val) ==
    CASE val.t = "none" -> "NoneType"
      [] val.t = "str"  -> "str"
      [] val.t = "int"  -> "int"
      [] val.t = "bool" -> "bool"
      [] val.t = "list" -> "list"
      [] val.t = "dict" -> "dict"

\* v.get(...) on a value that is no dict.
NoGet(val) ==
    Exc("AttributeError", "'" \o TypeName(val) \o "' object has no attribute 'get'", NoCause)

\* len(v) on a value that has no length.
NoLen(val) ==
    Exc("TypeError", "object of type '" \o TypeName(val) \o "' has no len()", NoCause)
HasLen(val) == val.t \in {"str", "list", "dict"}

\* d.get(key, default)
Get(d, key, default) == IF key \in DOMAIN d.v THEN d.v[key] ELSE default

user_get_info(client) ==
    IF client = None THEN NotInitialized("get user info.")
    ELSE Calls(ClientCall("get_user", NoKwargs))

user_get_info_return(cr) ==
    IF cr.outcome.kind = "raise"
    THEN Wrapped("Error getting user info: ", "Error getting user info: ", cr.outcome.exc)
    ELSE Done(cr.outcome, 0, <<>>)

\* The params dict posts_get_list builds and passes on as keyword arguments.
posts_get_list_params(q, page, per_page) ==
    LET given == [q |-> q, page |-> page, per_page |-> per_page]
    IN  [k \in {x \in DOMAIN given : Truthy(given[x])} |-> given[k]]

posts_get_list(client, args) ==
    LET q == Arg(args, "q", None)
        page == Arg(args, "page", None)
        per_page == Arg(args, "per_page", None)
    IN  IF client = None THEN NotInitialized("get posts list.")
        ELSE Calls(ClientCall("get_posts", posts_get_list_params(q, page, per_page)))

\* Mutant: posts_get_list lets the client's exception through as it is.
posts_get_list_return_raw(cr) ==
    IF cr.outcome.kind = "raise" THEN Done(cr.outcome, 0, <<>>)
    ELSE IF cr.outcome.value.t # "dict"
    THEN Wrapped("Error getting posts list: ", "Error getting posts list: ",
                 NoGet(cr.outcome.value))
    ELSE IF ~HasLen(Get(cr.outcome.value, "posts", PyList(<<>>)))
    THEN Wrapped("Error getting posts list: ", "Error getting posts list: ",
                 NoLen(Get(cr.outcome.value, "posts", PyList(<<>>))))
    ELSE Done(cr.outcome, 0, <<>>)

posts_get_list_return(cr) ==
    LET wrap(e) == Wrapped("Error getting posts list: ", "Error getting posts list: ", e)
        val == cr.outcome.value
    IN  IF cr.outcome.kind = "raise" THEN wrap(cr.outcome.exc)
        \* logger.info(f"... {len(posts_list.get('posts', []))} posts.")
        ELSE IF val.t # "dict" THEN wrap(NoGet(val))
        ELSE IF ~HasLen(Get(val, "posts", PyList(<<>>)))
        THEN wrap(NoLen(Get(val, "posts", PyList(<<>>))))
        ELSE Done(Return(val), 0, <<>>)

posts_get_detail(client, args) ==
    LET post_number == args["post_number"]
    IN
    IF client = None THEN NotInitialized("get post detail.")
    ELSE Calls(ClientCall("get_post", [post_number |-> post_number]))

posts_get_detail_return(post_number, cr) ==
    IF cr.outcome.kind = "raise"
    THEN Wrapped("Error getting post detail: ",
                 "Error getting post detail for " \o ToString(post_number.v) \o ": ",
                 cr.outcome.exc)
    ELSE Done(cr.outcome, 0, <<>>)

\* Mutant: the payload filtered with `if v` instead of `if v is not None`.
posts_create_payload_truthy(name, body_md, tags, category, wip, message) ==
    LET d == [name |-> name, body_md |-> body_md,
              tags |-> IF Truthy(tags) THEN tags ELSE PyList(<<>>),
              category |-> category, wip |-> wip, message |-> message]
    IN  [k \in {x \in DOMAIN d : Truthy(d[x])} |-> d[k]]

\* Mutant: the payload built with `tags` as passed, without `or []`.
posts_create_payload_tags_as_passed(name, body_md, tags, category, wip, message) ==
    LET d == [name |-> name, body_md |-> body_md, tags |-> tags,
              category |-> category, wip |-> wip, message |-> message]
    IN  [k \in {x \in DOMAIN d : d[x] # [t |-> "none"]} |-> d[k]]

\* The payload posts_create assembles: the six fields, `tags or []`, None stripped.
posts_create_payload(name, body_md, tags, category, wip, message) ==
    StripNone([name |-> name,
               body_md |-> body_md,
               tags |-> IF Truthy(tags) THEN tags ELSE PyList(<<>>),
               category |-> category,
               wip |-> wip,
               message |-> message])

posts_create(client, args) ==
    LET name == args["name"]
        body_md == args["body_md"]
        tags == Arg(args, "tags", PyList(<<>>))
        category == Arg(args, "category", PyStr(""))
        wip == Arg(args, "wip", PyBool(TRUE))
        message == Arg(args, "message", PyStr(""))
    IN  IF client = None THEN NotInitialized("create post.")
        ELSE Calls(ClientCall("create_post",
                [payload |-> PyDict(posts_create_payload(name, body_md, tags,
                                                         category, wip, message))]))

posts_create_return(cr) ==
    LET wrap(e) == Wrapped("Error creating post: ", "Error creating post: ", e)
        val == cr.outcome.value
    IN  IF cr.outcome.kind = "raise" THEN wrap(cr.outcome.exc)
        \* logger.info(f"Successfully created post: {new_post.get('url')}")
        ELSE IF val.t # "dict" THEN wrap(NoGet(val))
        ELSE Done(Return(val), 0, <<>>)

\* Mutant: the payload filtered with `if v` instead of `if v is not None`.
posts_update_payload_truthy(name, body_md, tags, category, wip, message) ==
    LET d == [name |-> name, body_md |-> body_md, tags |-> tags,
              category |-> category, wip |-> wip, message |-> message]
    IN  [k \in {x \in DOMAIN d : Truthy(d[x])} |-> d[k]]

\* The payload posts_update assembles: the six fields, None stripped.
posts_update_payload(name, body_md, tags, category, wip, message) ==
    StripNone([name |-> name,
               body_md |-> body_md,
               tags |-> tags,
               category |-> category,
               wip |-> wip,
               message |-> message])

NothingChanged(post_number) ==
    PyDict([message |-> PyStr("No update parameters provided for post "
                              \o ToString(post_number.v) \o ". Nothing changed.")])

\* Mutant: posts_update without the empty-payload check.
posts_update_always_calls(client, args) ==
    IF client = None THEN NotInitialized("update post.")
    ELSE Calls(ClientCall("update_post",
            [post_number |-> args["post_number"],
             payload |-> PyDict(posts_update_payload(Arg(args, "name", None),
                                                     Arg(args, "body_md", None),
                                                     Arg(args, "tags", None),
                                                     Arg(args, "category", None),
                                                     Arg(args, "wip", None),
                                                     Arg(args, "message", None)))]))

\* Mutant: posts_update testing the payload before it tests the client.
posts_update_payload_first(client, args) ==
    LET post_number == args["post_number"]
        payload == posts_update_payload(Arg(args, "name", None),
                                        Arg(args, "body_md", None),
                                        Arg(args, "tags", None),
                                        Arg(args, "category", None),
                                        Arg(args, "wip", None),
                                        Arg(args, "message", None))
    IN  IF ~Truthy(PyDict(payload))
        THEN Finished(Return(NothingChanged(post_number)),
                      <<LogRec("server", "warning",
                               "No update parameters provided for post "
                               \o ToString(post_number.v) \o ".")>>)
        ELSE IF client = None THEN NotInitialized("update post.")
        ELSE Calls(ClientCall("update_post",
                [post_number |-> post_number, payload |-> PyDict(payload)]))

posts_update(client, args) ==
    LET post_number == args["post_number"]
        payload == posts_update_payload(Arg(args, "name", None),
                                        Arg(args, "body_md", None),
                                        Arg(args, "tags", None),
                                        Arg(args, "category", None),
                                        Arg(args, "wip", None),
                                        Arg(args, "message", None))
    IN  IF client = None THEN NotInitialized("update post.")
        ELSE IF ~Truthy(PyDict(payload))
        THEN Finished(Return(NothingChanged(post_number)),
                      <<LogRec("server", "warning",
                               "No update parameters provided for post "
                               \o ToString(post_number.v) \o ".")>>)
        ELSE Calls(ClientCall("update_post",
                [post_number |-> post_number, payload |-> PyDict(payload)]))

\* Mutant: posts_update reading updated_post['url'], which raises KeyError
\* for a resource without that key.
posts_update_return_requiring_url(post_number, cr) ==
    LET wrap(e) == Wrapped("Error updating post: ",
                           "Error updating post " \o ToString(post_number.v) \o ": ", e)
        val == cr.outcome.value
    IN  IF cr.outcome.kind = "raise" THEN wrap(cr.outcome.exc)
        ELSE IF val.t # "dict" THEN wrap(NoGet(val))
        ELSE IF "url" \notin DOMAIN val.v
        THEN wrap([kind |-> "KeyError", msg |-> "'url'", cause |-> [kind |-> "None"]])
        ELSE Done([kind |-> "return", value |-> val], 0, <<>>)

posts_update_return(post_number, cr) ==
    LET wrap(e) == Wrapped("Error updating post: ",
                           "Error updating post " \o ToString(post_number.v) \o ": ", e)
        val == cr.outcome.value
    IN  IF cr.outcome.kind = "raise" THEN wrap(cr.outcome.exc)
        \* logger.info(f"Successfully updated post: {updated_post.get('url')}")
        ELSE IF val.t # "dict" THEN wrap(NoGet(val))
        ELSE Done(Return(val), 0, <<>>)

\* Mutant: posts_delete without its initialization guard; with no client the
\* attribute lookup on None fails inside the try block and is wrapped.
posts_delete_unguarded(client, args) ==
    IF client = None
    THEN Finished(Raise(Exc("RuntimeError",
                            "Error deleting post: 'NoneType' object has no attribute 'delete_post'",
                            Exc("AttributeError",
                                "'NoneType' object has no attribute 'delete_post'",
                                NoCause))),
                  <<ServerError("Error deleting post " \o ToString(args["post_number"].v)
                                \o ": 'NoneType' object has no attribute 'delete_post'")>>)
    ELSE Calls(ClientCall("delete_post", [post_number |-> args["post_number"]]))

posts_delete(client, args) ==
    LET post_number == args["post_number"]
    IN
    IF client = None THEN NotInitialized("delete post.")
    ELSE Calls(ClientCall("delete_post", [post_number |-> post_number]))

\* Mutant: posts_delete handing on what delete_post returned, which is None.
posts_delete_return_none(post_number, cr) ==
    IF cr.outcome.kind = "raise"
    THEN Wrapped("Error deleting post: ",
                 "Error deleting post " \o ToString(post_number.v) \o ": ",
                 cr.outcome.exc)
    ELSE Done(cr.outcome, 0, <<>>)

posts_delete_return(post_number, cr) ==
    IF cr.outcome.kind = "raise"
    THEN Wrapped("Error deleting post: ",
                 "Error deleting post " \o ToString(post_number.v) \o ": ",
                 cr.outcome.exc)
    ELSE Done(Return(EmptyDict), 0, <<>>)

\* The tool's handler from its client call's result `cr` on.
ToolReturn(c, cr) ==
    CASE c.op = "user_get_info"    -> user_get_info_return(cr)
      [] c.op = "posts_get_list"   -> posts_get_list_return(cr)
      [] c.op = "posts_get_detail" -> posts_get_detail_return(c.args["post_number"], cr)
      [] c.op = "posts_create"     -> posts_create_return(cr)
      [] c.op = "posts_update"     -> posts_update_return(c.args["post_number"], cr)
      [] c.op = "posts_delete"     -> posts_delete_return(c.args["post_number"], cr)

(***************************************************************************)
(* The inputs: environment values, tool arguments, client arguments.       *)
(***************************************************************************)
\* An argument the caller leaves out.
Omitted == [t |-> "omitted"]
\* The keyword arguments a caller passes: the fields of `r` it does not leave out.
Passed(r) == [k \in {x \in DOMAIN r : r[x] # Omitted} |-> r[k]]

TokenValues == {None, PyStr(""), PyStr("tok")}
TeamValues == {None, PyStr(""), PyStr("team")}
PostNumbers == {PyInt(i) : i \in 0..MaxPostNumber}
QValues == {PyStr(""), PyStr("q")}
PageValues == {PyInt(i) : i \in 0..MaxPage}
NameValues == {PyStr(""), PyStr("T")}
BodyValues == {PyStr("B")}
TagsValues == {PyList(<<>>), PyList(<<PyStr("x")>>)}
CategoryValues == {PyStr("c")}
WipValues == {PyBool(FALSE), PyBool(TRUE)}
MessageValues == {PyStr("m")}
\* A parameter that may be left out, and one that may also be passed None.
Opt(S) == S \cup {Omitted}
Nullable(S) == S \cup {None}

\* The payloads a caller of the client passes to create_post and update_post.
Payloads ==
    { PyDict([k \in {} |-> None]),
      PyDict([name |-> PyStr("T")]),
      PyDict([name |-> PyStr("U")]),
      PyDict([name |-> PyStr("T"), body_md |-> PyStr("B"),
              tags |-> PyList(<<PyStr("x")>>), category |-> PyStr("c"),
              wip |-> PyBool(TRUE)]),
      PyDict([name |-> PyStr(""), tags |-> PyList(<<>>), wip |-> PyBool(FALSE),
              message |-> None]) }

(***************************************************************************)
(* The state machine.                                                      *)
(***************************************************************************)
Unbound == [t |-> "unbound"]
NoCall == [layer |-> "none"]
\* A team that holds no post yet; the service numbers posts from 1.
NoPosts == [posts |-> [n \in {} |-> ""], next |-> 1]
NoPrev == [call |-> NoCall, outcome |-> [kind |-> "pending"]]
\* The host runs one invocation at a time.
NoThreads == <<>>

Cleared ==
    /\ call = NoCall
    /\ client_calls = <<>>
    /\ http = <<>>
    /\ reply = NoReply
    /\ json_calls = 0
    /\ client_out = Pending
    /\ outcome = Pending
    /\ log = <<>>

\* The process starts: the environment is what it is, server.py is not yet imported.
Init ==
    /\ pc = "import"
    /\ esa_token \in TokenValues
    /\ esa_team_name \in TeamValues
    /\ esa_client = Unbound
    /\ Cleared
    /\ remote = NoPosts
    /\ prev = NoPrev
    /\ threads = NoThreads

\* Mutant: the module body constructing the client with neither the check of
\* the environment nor the try/except around the constructor, so that the
\* constructor's ValueError ends the import.
ImportServer_unprotected ==
    /\ pc = "import"
    /\ LET made == EsaClient_init(esa_token, esa_team_name)
       IN  /\ esa_client' = IF made.kind = "return" THEN made.value ELSE Unbound
           /\ pc' = IF made.kind = "return" THEN "idle" ELSE "crashed"
    /\ UNCHANGED <<esa_token, esa_team_name, call, client_calls, http, reply,
                   json_calls, client_out, outcome, log, remote, prev, threads>>

\* server.py's module body: build the client from the environment, or leave None.
ImportServer ==
    /\ pc = "import"
    /\ esa_client' =
         IF ~Truthy(esa_token) \/ ~Truthy(esa_team_name) THEN None
         ELSE LET made == EsaClient_init(esa_token, esa_team_name)
              IN  IF made.kind = "return" THEN made.value ELSE None
    /\ log' =
         IF ~Truthy(esa_token) \/ ~Truthy(esa_team_name)
         THEN <<ServerError("ESA_TOKEN or ESA_TEAM_NAME environment variable not set (or empty).")>>
         ELSE LET made == EsaClient_init(esa_token, esa_team_name)
              IN  IF made.kind = "return" THEN <<>>
                  ELSE <<ServerError("Failed to initialize EsaClient: " \o made.exc.msg)>>
    /\ pc' = "idle"
    /\ UNCHANGED <<esa_token, esa_team_name, call, client_calls, http, reply,
                   json_calls, client_out, outcome, remote, prev, threads>>

\* Mutant: a call that sends a request replaces the session's headers by the
\* content type alone.
Begin_resetting_headers(layer, op, args, step) ==
    /\ call' = [layer |-> layer, op |-> op, args |-> args]
    /\ reply' = [t |-> "none"]
    /\ json_calls' = 0
    /\ client_out' = [kind |-> "pending"]
    /\ IF step.calls
       THEN /\ client_calls' = <<step.c>>
            /\ http' = <<ClientSend(esa_client, step.c)>>
            /\ outcome' = [kind |-> "pending"]
            /\ log' = <<>>
            /\ pc' = "waiting"
            /\ esa_client' = [esa_client EXCEPT
                                !.headers = [k \in {"Content-Type"} |-> "application/json"]]
       ELSE /\ client_calls' = <<>>
            /\ http' = <<>>
            /\ outcome' = step.outcome
            /\ log' = step.log
            /\ pc' = "done"
            /\ esa_client' = esa_client
    /\ UNCHANGED <<esa_token, esa_team_name, remote, prev, threads>>

\* A call begins: `step` is the handler up to its client call or to its end.
Begin(layer, op, args, step) ==
    /\ call' = [layer |-> layer, op |-> op, args |-> args]
    /\ reply' = NoReply
    /\ json_calls' = 0
    /\ client_out' = Pending
    /\ IF step.calls
       THEN /\ client_calls' = <<step.c>>
            /\ http' = <<ClientSend(esa_client, step.c)>>
            /\ outcome' = Pending
            /\ log' = <<>>
            /\ pc' = "waiting"
       ELSE /\ client_calls' = <<>>
            /\ http' = <<>>
            /\ outcome' = step.outcome
            /\ log' = step.log
            /\ pc' = "done"
    /\ UNCHANGED <<esa_token, esa_team_name, esa_client, remote, prev, threads>>

\* The host runtime invokes a tool.  `args` are the handler's parameters: the
\* keyword arguments passed, the others left to the declared defaults.
Tool_user_get_info ==
    /\ pc = "idle"
    /\ Begin("tool", "user_get_info", NoKwargs, user_get_info(esa_client))

Tool_posts_get_list ==
    /\ pc = "idle"
    /\ \E q \in Opt(Nullable(QValues)), page \in Opt(Nullable(PageValues)),
          per_page \in Opt(Nullable(PageValues)) :
        LET args == Passed([q |-> q, page |-> page, per_page |-> per_page])
        IN  Begin("tool", "posts_get_list", args, posts_get_list(esa_client, args))

Tool_posts_get_detail ==
    /\ pc = "idle"
    /\ \E n \in PostNumbers :
        LET args == [post_number |-> n]
        IN  Begin("tool", "posts_get_detail", args, posts_get_detail(esa_client, args))

Tool_posts_create ==
    /\ pc = "idle"
    /\ \E name \in NameValues, body_md \in BodyValues,
          tags \in Opt(Nullable(TagsValues)), category \in Opt(Nullable(CategoryValues)),
          wip \in Opt(Nullable(WipValues)), message \in Opt(Nullable(MessageValues)) :
        LET args == Passed([name |-> name, body_md |-> body_md, tags |-> tags,
                            category |-> category, wip |-> wip, message |-> message])
        IN  Begin("tool", "posts_create", args, posts_create(esa_client, args))

Tool_posts_update ==
    /\ pc = "idle"
    /\ \E n \in PostNumbers, name \in Opt(Nullable(NameValues)),
          body_md \in Opt(BodyValues), tags \in Opt(TagsValues),
          category \in Opt(CategoryValues), wip \in Opt(Nullable(WipValues)),
          message \in Opt(MessageValues) :
        LET args == Passed([post_number |-> n, name |-> name, body_md |-> body_md,
                            tags |-> tags, category |-> category, wip |-> wip,
                            message |-> message])
        IN  Begin("tool", "posts_update", args, posts_update(esa_client, args))

Tool_posts_delete ==
    /\ pc = "idle"
    /\ \E n \in PostNumbers :
        LET args == [post_number |-> n]
        IN  Begin("tool", "posts_delete", args, posts_delete(esa_client, args))

\* The transport answers the request in flight; the client method and then the
\* tool run to their end.
\* Mutant: a round trip that failed is sent again, until one succeeds.
Complete_until_success(r) ==
    /\ pc = "waiting"
    /\ LET cr == ClientReturn(client_calls[1], http[1], r)
           tr == IF call.layer = "tool" THEN ToolReturn(call, cr)
                 ELSE Done(cr.outcome, 0, <<>>)
       IN  IF cr.outcome.kind = "raise"
           THEN /\ pc' = "waiting"
                /\ UNCHANGED <<client_out, json_calls, outcome, log>>
           ELSE /\ client_out' = cr.outcome
                /\ json_calls' = cr.json_calls + tr.json_calls
                /\ outcome' = tr.outcome
                /\ log' = cr.log \o tr.log
                /\ pc' = "done"
    /\ reply' = r
    /\ UNCHANGED <<esa_token, esa_team_name, esa_client, call, client_calls, http,
                   prev, threads>>

\* Mutant: a round trip that failed is sent once more before giving up.
Complete_retrying(r) ==
    /\ pc = "waiting"
    /\ LET cr == ClientReturn(client_calls[1], http[1], r)
           tr == IF call.layer = "tool" THEN ToolReturn(call, cr)
                 ELSE Done(cr.outcome, 0, <<>>)
       IN  IF cr.outcome.kind = "raise" /\ Len(http) < 2
           THEN /\ http' = Append(http, http[1])
                /\ pc' = "waiting"
                /\ UNCHANGED <<client_out, json_calls, outcome, log>>
           ELSE /\ client_out' = cr.outcome
                /\ json_calls' = cr.json_calls + tr.json_calls
                /\ outcome' = tr.outcome
                /\ log' = cr.log \o tr.log
                /\ pc' = "done"
                /\ http' = http
    /\ reply' = r
    /\ UNCHANGED <<esa_token, esa_team_name, esa_client, call, client_calls, prev, threads>>

Complete(r) ==
    /\ pc = "waiting"
    /\ LET cr == ClientReturn(client_calls[1], http[1], r)
           tr == IF call.layer = "tool" THEN ToolReturn(call, cr)
                 ELSE Done(cr.outcome, 0, <<>>)
       IN  /\ client_out' = cr.outcome
           /\ json_calls' = cr.json_calls + tr.json_calls
           /\ outcome' = tr.outcome
           /\ log' = cr.log \o tr.log
    /\ reply' = r
    /\ pc' = "done"
    /\ UNCHANGED <<esa_token, esa_team_name, esa_client, call, client_calls, http, prev, threads>>

session_request_returns ==
    /\ \E r \in Responses : Complete(r)
    /\ UNCHANGED remote

\* The request fails before the service sees it.
session_request_raises ==
    /\ \E e \in TransportFailures : Complete(Raised(e))
    /\ UNCHANGED remote

\* The caller takes the result; the next call may begin.
Taken ==
    /\ pc = "done"
    /\ pc' = IF esa_client = Unbound THEN "new" ELSE "idle"
    /\ call' = NoCall
    /\ client_calls' = <<>>
    /\ http' = <<>>
    /\ reply' = NoReply
    /\ json_calls' = 0
    /\ client_out' = Pending
    /\ outcome' = Pending
    /\ log' = <<>>
    /\ UNCHANGED <<esa_token, esa_team_name, esa_client, remote, threads>>

Collect ==
    /\ Taken
    /\ UNCHANGED prev

(***************************************************************************)
(* The client on its own: a caller constructs an EsaClient and calls its   *)
(* methods directly, as tests/test_esa_client.py does.                     *)
(***************************************************************************)
InitClient ==
    /\ pc = "new"
    /\ esa_token = None
    /\ esa_team_name = None
    /\ esa_client = Unbound
    /\ Cleared
    /\ remote = NoPosts
    /\ prev = NoPrev
    /\ threads = NoThreads

Construct ==
    /\ pc = "new"
    /\ \E token \in TokenValues \cup {PyStr("tok2")},
          team_name \in TeamValues \cup {PyStr("team2")} :
        LET made == EsaClient_init(token, team_name)
        IN  /\ call' = [layer |-> "client", op |-> "__init__",
                        args |-> [token |-> token, team_name |-> team_name]]
            /\ esa_client' = IF made.kind = "return" THEN made.value ELSE Unbound
            /\ outcome' = IF made.kind = "return" THEN Return(None) ELSE made
            /\ log' = EsaClient_init_log(token, team_name)
    /\ pc' = "done"
    /\ UNCHANGED <<esa_token, esa_team_name, client_calls, http, reply,
                   json_calls, client_out, remote, prev, threads>>

Direct(method, args) == Begin("client", method, args, Calls(ClientCall(method, args)))

Client_get_user ==
    /\ pc = "idle"
    /\ Direct("get_user", NoKwargs)

Client_get_posts ==
    /\ pc = "idle"
    /\ \E q \in Opt(Nullable(QValues)), page \in Opt(Nullable(PageValues)),
          per_page \in Opt(Nullable(PageValues)) :
        Direct("get_posts", Passed([q |-> q, page |-> page, per_page |-> per_page]))

Client_get_post ==
    /\ pc = "idle"
    /\ \E n \in PostNumbers : Direct("get_post", [post_number |-> n])

Client_create_post ==
    /\ pc = "idle"
    /\ \E p \in Payloads : Direct("create_post", [payload |-> p])

Client_update_post ==
    /\ pc = "idle"
    /\ \E n \in PostNumbers, p \in Payloads :
        Direct("update_post", [post_number |-> n, payload |-> p])

Client_delete_post ==
    /\ pc = "idle"
    /\ \E n \in PostNumbers : Direct("delete_post", [post_number |-> n])

NextClient ==
    \/ Construct
    \/ Client_get_user
    \/ Client_get_posts
    \/ Client_get_post
    \/ Client_create_post
    \/ Client_update_post
    \/ Client_delete_post
    \/ session_request_returns
    \/ session_request_raises
    \/ Collect

SpecClient == InitClient /\ [][NextClient]_vars

Next ==
    \/ ImportServer
    \/ Tool_user_get_info
    \/ Tool_posts_get_list
    \/ Tool_posts_get_detail
    \/ Tool_posts_create
    \/ Tool_posts_update
    \/ Tool_posts_delete
    \/ session_request_returns
    \/ session_request_raises
    \/ Collect

Spec == Init /\ [][Next]_vars

\* The server with a transport that answers or fails every request in the end.
SpecLive ==
    Spec /\ WF_vars(session_request_returns) /\ WF_vars(session_request_raises)

(***************************************************************************)
(* The client and the tools against the remote service, as the tests of    *)
(* tests/integration run them: the service keeps the team's posts, answers *)
(* each request from them, and a post that is not there is a 404.          *)
(***************************************************************************)
PostsUrl == "https://api.esa.io/v1/teams/team/posts"
PostUrl(n) == PostsUrl \o "/" \o ToString(n)

\* The JSON document the service returns for a post.
Resource(n, name) == PyDict([number |-> PyInt(n), name |-> PyStr(name)])
NotFound == Response(404, JsonBody(PyDict([error |-> PyStr("not_found")])))
BadRequest == Response(400, JsonBody(PyDict([error |-> PyStr("bad_request")])))
Answer(r, store) == [reply |-> r, store |-> store]

\* The post numbers the request's URL addresses.
Addressed(req) == {n \in 0..(MaxPostNumber + 1) : req.url = PostUrl(n)}

\* The name in the request's body {"post": {"name": ...}}, "" when it has none.
PostedName(req) ==
    IF "json" \notin DOMAIN req.kwargs THEN ""
    ELSE LET body == req.kwargs["json"]
         IN  IF body.t # "dict" \/ "post" \notin DOMAIN body.v THEN ""
             ELSE LET post == body.v["post"]
                  IN  IF post.t # "dict" \/ "name" \notin DOMAIN post.v THEN ""
                      ELSE IF post.v["name"].t # "str" THEN ""
                      ELSE post.v["name"].v

Put(posts, n, name) ==
    [k \in DOMAIN posts \cup {n} |-> IF k = n THEN name ELSE posts[k]]
Remove(posts, n) == [k \in DOMAIN posts \ {n} |-> posts[k]]

\* The service's answer to a request, and the posts it holds afterwards.
RemoteService(store, req) ==
    IF req.method = "POST" /\ req.url = PostsUrl
    THEN IF PostedName(req) = "" THEN Answer(BadRequest, store)
         ELSE Answer(Response(201, JsonBody(Resource(store.next, PostedName(req)))),
                     [posts |-> Put(store.posts, store.next, PostedName(req)),
                      next |-> store.next + 1])
    ELSE IF Addressed(req) \cap DOMAIN store.posts = {} THEN Answer(NotFound, store)
    ELSE LET n == CHOOSE k \in Addressed(req) \cap DOMAIN store.posts : TRUE
         IN  CASE req.method = "GET" ->
                    Answer(Response(200, JsonBody(Resource(n, store.posts[n]))), store)
               [] req.method = "PATCH" ->
                    LET name == IF PostedName(req) = "" THEN store.posts[n]
                                ELSE PostedName(req)
                    IN  Answer(Response(200, JsonBody(Resource(n, name))),
                               [store EXCEPT !.posts = Put(store.posts, n, name)])
               [] req.method = "DELETE" ->
                    Answer(Response(204, EmptyBody),
                           [store EXCEPT !.posts = Remove(store.posts, n)])
               [] OTHER -> Answer(NotFound, store)

\* The fixture of the integration tests: a client for the team, no post yet.
InitRemote ==
    /\ pc = "idle"
    /\ esa_token = PyStr("tok")
    /\ esa_team_name = PyStr("team")
    /\ esa_client = EsaClient_init(PyStr("tok"), PyStr("team")).value
    /\ Cleared
    /\ remote = NoPosts
    /\ prev = NoPrev
    /\ threads = NoThreads

\* The service answers the request in flight.  It numbers no post above
\* MaxPostNumber.
remote_service_answers ==
    /\ pc = "waiting"
    /\ LET a == RemoteService(remote, http[1])
       IN  /\ a.store.next <= MaxPostNumber + 1
           /\ Complete(a.reply)
           /\ remote' = a.store

\* The service takes the request and acts on it, but its answer does not
\* arrive: the connection breaks, and session.request raises.
remote_answer_lost ==
    /\ pc = "waiting"
    /\ LET a == RemoteService(remote, http[1])
       IN  /\ a.store.next <= MaxPostNumber + 1
           /\ Complete(Raised(Exc("ConnectionError", "Connection aborted", NoCause)))
           /\ remote' = a.store

\* The caller keeps what the call gave it and goes on to its next call.
Remember ==
    /\ Taken
    /\ prev' = [call |-> call, outcome |-> outcome]

\* posts_update called with a new name only.
Tool_posts_rename ==
    /\ pc = "idle"
    /\ \E n \in PostNumbers, name \in Opt({PyStr("U")}) :
        LET args == Passed([post_number |-> n, name |-> name])
        IN  Begin("tool", "posts_update", args, posts_update(esa_client, args))

\* posts_create called with name and body_md only.
Tool_posts_create_named ==
    /\ pc = "idle"
    /\ \E name \in NameValues, body_md \in BodyValues :
        LET args == [name |-> name, body_md |-> body_md]
        IN  Begin("tool", "posts_create", args, posts_create(esa_client, args))

NextRemote ==
    \/ Client_get_post
    \/ Client_create_post
    \/ Client_update_post
    \/ Client_delete_post
    \/ Tool_posts_get_detail
    \/ Tool_posts_create_named
    \/ Tool_posts_rename
    \/ Tool_posts_delete
    \/ remote_service_answers
    \/ remote_answer_lost
    \/ session_request_raises
    \/ Remember

SpecRemote == InitRemote /\ [][NextRemote]_vars

(***************************************************************************)
(* The host runs tool invocations side by side on the one esa_client.  An  *)
(* invocation's parameters and locals are its own; the handlers may        *)
(* interleave between any two of their steps.                              *)
(***************************************************************************)
Threads == {"a", "b"}

IdleThread ==
    [pc |-> "idle", call |-> NoCall, client_calls |-> <<>>, http |-> <<>>,
     reply |-> NoReply, json_calls |-> 0, client_out |-> Pending,
     outcome |-> Pending, log |-> <<>>]

\* Tool invocation `c`, up to its client call or to its end.
ToolSend(client, c) ==
    CASE c.op = "user_get_info"    -> user_get_info(client)
      [] c.op = "posts_get_list"   -> posts_get_list(client, c.args)
      [] c.op = "posts_get_detail" -> posts_get_detail(client, c.args)
      [] c.op = "posts_create"     -> posts_create(client, c.args)
      [] c.op = "posts_update"     -> posts_update(client, c.args)
      [] c.op = "posts_delete"     -> posts_delete(client, c.args)

\* Mutant: the handlers keep their parameters in one slot shared by all
\* invocations, which holds those of invocation "a" while it runs.
Locals_shared(ts, i) ==
    IF ts["a"].pc # "idle" THEN ts["a"].call ELSE ts[i].call

\* The parameters of invocation i: the handler's own locals.
Locals(ts, i) == ts[i].call

InitConcurrent ==
    /\ pc = "idle"
    /\ esa_token = PyStr("tok")
    /\ esa_team_name = PyStr("team")
    /\ esa_client = EsaClient_init(PyStr("tok"), PyStr("team")).value
    /\ Cleared
    /\ remote = NoPosts
    /\ prev = NoPrev
    /\ threads = [i \in Threads |-> IdleThread]

Rest == <<pc, esa_token, esa_team_name, esa_client, call, client_calls, http,
          reply, json_calls, client_out, outcome, log, remote, prev>>

\* The host invokes a tool on thread i: the handler is entered, its parameters bound.
Enter(i, op, args) ==
    /\ threads[i].pc = "idle"
    /\ threads' = [threads EXCEPT ![i] =
                     [IdleThread EXCEPT !.pc = "entered",
                                        !.call = [layer |-> "tool", op |-> op, args |-> args]]]
    /\ UNCHANGED Rest

Thread_posts_get_list(i) ==
    \E q \in Opt({PyStr("q")}) : Enter(i, "posts_get_list", Passed([q |-> q]))

Thread_posts_get_detail(i) ==
    \E n \in PostNumbers : Enter(i, "posts_get_detail", [post_number |-> n])

Thread_posts_update(i) ==
    \E n \in PostNumbers, name \in Opt({PyStr("U")}) :
        Enter(i, "posts_update", Passed([post_number |-> n, name |-> name]))

\* The handler on thread i runs up to its client call, or to its end.
Thread_sends(i) ==
    /\ threads[i].pc = "entered"
    /\ LET step == ToolSend(esa_client, Locals(threads, i))
       IN  threads' = [threads EXCEPT ![i] =
             IF step.calls
             THEN [@ EXCEPT !.pc = "waiting",
                            !.client_calls = <<step.c>>,
                            !.http = <<ClientSend(esa_client, step.c)>>]
             ELSE [@ EXCEPT !.pc = "done",
                            !.outcome = step.outcome,
                            !.log = step.log]]
    /\ UNCHANGED Rest

\* The transport answers thread i's request, or fails it; the client method
\* and the handler on that thread run to their end.
Thread_answered(i) ==
    /\ threads[i].pc = "waiting"
    /\ \E r \in Responses \cup {Raised(e) : e \in TransportFailures} :
        LET t == threads[i]
            cr == ClientReturn(t.client_calls[1], t.http[1], r)
            tr == ToolReturn(Locals(threads, i), cr)
        IN  threads' = [threads EXCEPT ![i] =
              [@ EXCEPT !.pc = "done",
                        !.reply = r,
                        !.client_out = cr.outcome,
                        !.json_calls = cr.json_calls + tr.json_calls,
                        !.outcome = tr.outcome,
                        !.log = cr.log \o tr.log]]
    /\ UNCHANGED Rest

\* The host takes thread i's result.
Thread_returned(i) ==
    /\ threads[i].pc = "done"
    /\ threads' = [threads EXCEPT ![i] = IdleThread]
    /\ UNCHANGED Rest

NextConcurrent ==
    \E i \in Threads :
        \/ Thread_posts_get_list(i)
        \/ Thread_posts_get_detail(i)
        \/ Thread_posts_update(i)
        \/ Thread_sends(i)
        \/ Thread_answered(i)
        \/ Thread_returned(i)

SpecConcurrent == InitConcurrent /\ [][NextConcurrent]_vars

(***************************************************************************)
(* Properties.                                                             *)
(***************************************************************************)
\* A tool invocation is in progress or has ended.
InTool(op) == call.layer = "tool" /\ call.op = op
ToolEnded == pc = "done" /\ call.layer = "tool"
NotInitializedError == Exc("RuntimeError", "EsaClient not initialized", NoCause)

\* The words by which a tool's error message names its operation.
OperationName(op) ==
    CASE op = "user_get_info"    -> "getting user info"
      [] op = "posts_get_list"   -> "getting posts list"
      [] op = "posts_get_detail" -> "getting post detail"
      [] op = "posts_create"     -> "creating post"
      [] op = "posts_update"     -> "updating post"
      [] op = "posts_delete"     -> "deleting post"

\* C1: on an initialized client, whenever the client call a tool delegates to
\* raises, the tool raises RuntimeError; its message contains the operation's
\* name and the original failure's message, its cause is the original failure.
C1_ClientFailureWrapped ==
    (ToolEnded /\ esa_client # None /\ client_out.kind = "raise") =>
        /\ outcome.kind = "raise"
        /\ outcome.exc.kind = "RuntimeError"
        /\ Contains(outcome.exc.msg, OperationName(call.op))
        /\ Contains(outcome.exc.msg, client_out.exc.msg)
        /\ outcome.exc.cause = client_out.exc

C1_Witness ==
    /\ ToolEnded
    /\ call.op = "posts_update"
    /\ client_out.kind = "raise"
    /\ client_out.exc.kind = "HTTPError"
    /\ reply = Response(404, EmptyBody)
    /\ outcome = Raise(Exc("RuntimeError",
                           "Error updating post: " \o client_out.exc.msg,
                           client_out.exc))

\* C2: while the module-level client is None, every tool invocation, whatever
\* its arguments, ends at once with the "EsaClient not initialized" error: no
\* client method is called and no HTTP request is sent.
C2_UninitializedFailsFast ==
    (call.layer = "tool" /\ esa_client = None) =>
        /\ pc = "done"
        /\ outcome = Raise(NotInitializedError)
        /\ client_calls = <<>>
        /\ http = <<>>
        /\ reply = NoReply

C2_Witness ==
    /\ esa_client = None
    /\ InTool("posts_delete")
    /\ pc = "done"
    /\ outcome = Raise(NotInitializedError)

\* C3 as stated: every failure a tool surfaces is a RuntimeError whose message
\* is made of the operation's name and a cause description and which carries
\* the original cause.
C3_EveryFailureNamesOperationAndCause ==
    (ToolEnded /\ outcome.kind = "raise") =>
        /\ outcome.exc.kind = "RuntimeError"
        /\ Contains(outcome.exc.msg, OperationName(call.op))
        /\ outcome.exc.cause # NoCause
        /\ Contains(outcome.exc.msg, outcome.exc.cause.msg)

\* C3 as amended: every failure a tool surfaces is a RuntimeError, never a
\* transport-layer exception.  With no client it is the fixed "EsaClient not
\* initialized" error, which names no operation and has no cause; otherwise its
\* message is made of the operation's name and the cause's message and its
\* cause is the original failure: the client's, or the one raised in the tool.
C3_UniformToolError ==
    (ToolEnded /\ outcome.kind = "raise") =>
        /\ outcome.exc.kind = "RuntimeError"
        /\ outcome.exc.kind \notin TransportKinds
        /\ IF esa_client = None
           THEN outcome.exc = NotInitializedError
           ELSE /\ Contains(outcome.exc.msg, OperationName(call.op))
                /\ outcome.exc.cause # NoCause
                /\ Contains(outcome.exc.msg, outcome.exc.cause.msg)
                /\ IF client_out.kind = "raise"
                   THEN outcome.exc.cause = client_out.exc
                   ELSE outcome.exc.cause.kind \in {"AttributeError", "TypeError"}

C3_Witness ==
    /\ ToolEnded
    /\ call.op = "posts_get_list"
    /\ reply = Raised(Exc("ConnectionError", "Connection refused", NoCause))
    /\ outcome.kind = "raise"
    /\ outcome.exc.cause.kind = "ConnectionError"

\* The optional fields of posts_update the caller set: passed, and not None.
UpdateFields == {"name", "body_md", "tags", "category", "wip", "message"}
FieldsSet(args) == {k \in DOMAIN args \cap UpdateFields : args[k] # None}

\* C4: posts_update on an initialized client with none of the six optional
\* fields set calls no client method, sends no request and returns the
\* "nothing changed" descriptor.
C4_EmptyUpdateSkipsClient ==
    (InTool("posts_update") /\ esa_client # None /\ FieldsSet(call.args) = {}) =>
        /\ pc = "done"
        /\ client_calls = <<>>
        /\ http = <<>>
        /\ outcome = Return(PyDict([message |->
              PyStr("No update parameters provided for post "
                    \o ToString(call.args["post_number"].v)
                    \o ". Nothing changed.")]))

C4_Witness ==
    /\ InTool("posts_update")
    /\ esa_client # None
    /\ call.args = [post_number |-> PyInt(1)]
    /\ pc = "done"
    /\ outcome.kind = "return"

\* C5: for every set of optional fields passed to posts_update with a value,
\* update_post is called with a payload whose keys are exactly those fields,
\* with the values passed, none of them None; "", [] and false count as values.
C5_UpdatePayloadIsFieldsSet ==
    (InTool("posts_update") /\ esa_client # None /\ FieldsSet(call.args) # {}) =>
        /\ client_calls =
             <<ClientCall("update_post",
                 [post_number |-> call.args["post_number"],
                  payload |-> PyDict([k \in FieldsSet(call.args) |-> call.args[k]])])>>
        /\ \A k \in DOMAIN client_calls[1].args["payload"].v :
               client_calls[1].args["payload"].v[k] # None
        /\ Len(http) = 1

C5_Witness ==
    /\ InTool("posts_update")
    /\ esa_client # None
    /\ call.args = [post_number |-> PyInt(1), name |-> PyStr(""),
                    tags |-> PyList(<<>>), wip |-> PyBool(FALSE)]
    /\ Len(client_calls) = 1
    /\ client_calls[1].method = "update_post"
    /\ DOMAIN client_calls[1].args["payload"].v = {"name", "tags", "wip"}

\* C6: posts_create called with name and body_md only calls create_post with a
\* six-key payload: the two values given and the declared defaults tags = [],
\* category = "", wip = true, message = "".
C6_CreateDefaultsKept ==
    (InTool("posts_create") /\ esa_client # None
        /\ DOMAIN call.args = {"name", "body_md"}) =>
        client_calls =
          <<ClientCall("create_post",
              [payload |-> PyDict([name |-> call.args["name"],
                                   body_md |-> call.args["body_md"],
                                   tags |-> PyList(<<>>),
                                   category |-> PyStr(""),
                                   wip |-> PyBool(TRUE),
                                   message |-> PyStr("")])])>>

C6_Witness ==
    /\ InTool("posts_create")
    /\ esa_client # None
    /\ call.args = [name |-> PyStr("T"), body_md |-> PyStr("B")]
    /\ Len(client_calls) = 1
    /\ DOMAIN client_calls[1].args["payload"].v =
         {"name", "body_md", "tags", "category", "wip", "message"}

\* A call of client method `m` is in progress or has ended.
InClient(m) == Len(client_calls) = 1 /\ client_calls[1].method = m
\* The arguments of a call that were passed with a value other than None.
Supplied(args) == {k \in DOMAIN args : args[k] # None}

\* C7 as stated: get_posts sends as query parameters exactly the arguments it
\* was given, with the values given, whatever those values are, and none
\* when it was given none.
C7_GetPostsSendsWhatSupplied ==
    InClient("get_posts") =>
        http = <<Request("GET", esa_client.base_url \o "/posts",
                   [params |-> PyDict([k \in Supplied(client_calls[1].args)
                                         |-> client_calls[1].args[k]])])>>

\* C8 as stated: posts_get_list calls get_posts with exactly the optional
\* parameters its caller supplied, as keyword arguments with the values
\* supplied, and with no arguments when none was supplied.
C8_GetListForwardsWhatSupplied ==
    (InTool("posts_get_list") /\ esa_client # None) =>
        client_calls =
          <<ClientCall("get_posts",
                       [k \in Supplied(call.args) |-> call.args[k]])>>

\* C9: for every payload, create_post sends one POST to <base_url>/posts whose
\* body is the payload, unchanged, under the one key "post"; when the status
\* check passes and the body parses, it returns exactly the parsed body, and it
\* returns nothing else.
C9_CreatePostWrapsPayload ==
    InClient("create_post") =>
        /\ http = <<Request("POST",
                            "https://api.esa.io/v1/teams/" \o esa_client.team_name \o "/posts",
                            [json |-> PyDict([post |-> client_calls[1].args["payload"]])])>>
        /\ pc = "done" =>
             /\ (reply.t = "response" /\ reply.status \notin 400..599
                   /\ reply.body.t = "json")
                  => client_out = Return(reply.body.v)
             /\ client_out.kind = "return" =>
                  /\ reply.t = "response"
                  /\ reply.body.t = "json"
                  /\ client_out.value = reply.body.v

C9_Witness ==
    /\ InClient("create_post")
    /\ call.layer = "client"
    /\ DOMAIN client_calls[1].args["payload"].v =
         {"name", "body_md", "tags", "category", "wip"}
    /\ http[1].kwargs["json"].v["post"] = client_calls[1].args["payload"]
    /\ pc = "done"
    /\ reply.t = "response"
    /\ reply.status = 200
    /\ outcome = Return(PyDict([url |-> PyStr("https://t.esa.io/posts/1"),
                                name |-> PyStr("T")]))

\* C10: delete_post sends one DELETE to <base_url>/posts/<n>, never calls
\* response.json(), and returns None whenever the status check passes, also
\* for a response with an empty body.
C10_DeletePostNeverParses ==
    InClient("delete_post") =>
        /\ http = <<Request("DELETE",
                            "https://api.esa.io/v1/teams/" \o esa_client.team_name
                              \o "/posts/"
                              \o ToString(client_calls[1].args["post_number"].v),
                            NoKwargs)>>
        /\ json_calls = 0
        /\ (pc = "done" /\ reply.t = "response" /\ reply.status \notin 400..599)
             => client_out = Return(None)

C10_Witness ==
    /\ InClient("delete_post")
    /\ call.layer = "client"
    /\ pc = "done"
    /\ reply = Response(204, EmptyBody)
    /\ json_calls = 0
    /\ outcome = Return(None)

\* C11: posts_delete on an initialized client calls delete_post once, with the
\* post number it was given; when that call succeeds it returns the empty
\* dict, not None, and it returns the empty dict in no other case.
C11_DeleteReturnsEmptyDict ==
    (InTool("posts_delete") /\ esa_client # None) =>
        /\ client_calls =
             <<ClientCall("delete_post", [post_number |-> call.args["post_number"]])>>
        /\ pc = "done" =>
             /\ client_out.kind = "return" => outcome = Return(PyDict(<<>>))
             /\ outcome.kind = "return" =>
                  /\ client_out.kind = "return"
                  /\ outcome.value # None
                  /\ outcome.value = PyDict(<<>>)

C11_Witness ==
    /\ InTool("posts_delete")
    /\ esa_client # None
    /\ pc = "done"
    /\ reply = Response(204, EmptyBody)
    /\ client_out = Return(None)
    /\ outcome = Return(PyDict(<<>>))

\* A constructor argument that is empty or absent.
Missing(val) == val = None \/ val = PyStr("")

\* C12: constructing EsaClient with a token or a team name that is empty or
\* absent raises ValueError and yields no client; with both non-empty it
\* succeeds, base_url is "https://api.esa.io/v1/teams/<team_name>" and the
\* session's Authorization header is "Bearer <token>".
C12_ConstructionChecksBoth ==
    (call.layer = "client" /\ call.op = "__init__") =>
        IF Missing(call.args["token"]) \/ Missing(call.args["team_name"])
        THEN /\ outcome.kind = "raise"
             /\ outcome.exc.kind = "ValueError"
             /\ esa_client = Unbound
        ELSE /\ outcome.kind = "return"
             /\ esa_client.t = "EsaClient"
             /\ esa_client.base_url
                  = "https://api.esa.io/v1/teams/" \o call.args["team_name"].v
             /\ esa_client.headers["Authorization"]
                  = "Bearer " \o call.args["token"].v

C12_Witness ==
    /\ call.layer = "client"
    /\ call.op = "__init__"
    /\ call.args = [token |-> PyStr("tok2"), team_name |-> PyStr("team")]
    /\ esa_client.base_url = "https://api.esa.io/v1/teams/team"
    /\ esa_client.headers["Authorization"] = "Bearer tok2"

\* The six tools can be invoked: server.py registered each of them.
SixToolsRegistered ==
    /\ ENABLED Tool_user_get_info
    /\ ENABLED Tool_posts_get_list
    /\ ENABLED Tool_posts_get_detail
    /\ ENABLED Tool_posts_create
    /\ ENABLED Tool_posts_update
    /\ ENABLED Tool_posts_delete

BothSet == ~Missing(esa_token) /\ ~Missing(esa_team_name)

\* C13: whatever ESA_TOKEN and ESA_TEAM_NAME are at startup (present, empty or
\* absent), the module body runs to its end without raising: it leaves a
\* client when both are non-empty and None otherwise, and the six tools are
\* registered either way.  A client that is None stays None, and every tool
\* invoked on it fails fast with the not-initialized error, sending nothing.
C13_StartupNeverRaises ==
    /\ [][/\ pc = "import" =>
               /\ pc' = "idle"
               /\ IF BothSet
                  THEN /\ esa_client'.t = "EsaClient"
                       /\ esa_client'.token = esa_token.v
                       /\ esa_client'.team_name = esa_team_name.v
                  ELSE esa_client' = None
          /\ esa_client = None => esa_client' = None]_vars
    /\ [](/\ pc = "idle" => SixToolsRegistered
          /\ (call.layer = "tool" /\ esa_client = None) =>
               /\ pc = "done"
               /\ outcome = Raise(NotInitializedError)
               /\ http = <<>>
               /\ client_calls = <<>>)

C13_Witness ==
    /\ esa_token = PyStr("tok")
    /\ esa_team_name = PyStr("")
    /\ esa_client = None
    /\ InTool("posts_create")
    /\ outcome = Raise(NotInitializedError)

\* The reply is a failure of the round trip: the transport raised, or the
\* status check of the response raises.
RoundTripFailed ==
    \/ reply.t = "raised"
    \/ reply.t = "response" /\ raise_for_status(reply.status)

\* C14: a tool invocation sends one HTTP request when the client is
\* initialized and the invocation is not a posts_update with nothing to
\* change, and none otherwise; never more than one.  A request that failed is
\* not sent again: its failure is the invocation's outcome.
C14_AtMostOneRequest ==
    call.layer = "tool" =>
        /\ Len(http) =
             IF esa_client # None
                /\ ~(call.op = "posts_update" /\ FieldsSet(call.args) = {})
             THEN 1 ELSE 0
        /\ (pc = "done" /\ RoundTripFailed) =>
             /\ Len(http) = 1
             /\ client_out.kind = "raise"
             /\ outcome.kind = "raise"
             /\ outcome.exc.cause = client_out.exc

C14_Witness ==
    /\ InTool("posts_create")
    /\ pc = "done"
    /\ reply = Raised(Exc("ConnectionError", "Connection refused", NoCause))
    /\ Len(http) = 1
    /\ outcome.kind = "raise"

\* The call in progress is the client method `m` called after the caller's
\* previous call, client method `before`, on the same post.
InClientAfter(m, before) ==
    /\ call.layer = "client"
    /\ call.op = m
    /\ prev.call.layer = "client"
    /\ prev.call.op = before
    /\ prev.outcome.kind = "return"

\* C15: against the service that keeps the posts, when create_post with a
\* name returned a resource with number n, get_post(n) called next returns a
\* resource with that name; when delete_post(n) succeeded, get_post(n) called
\* next raises the HTTPError of a 404.
C15_CreateGetDeleteGet ==
    (pc = "done" /\ reply.t = "response") =>
        /\ ( /\ InClientAfter("get_post", "create_post")
             /\ prev.outcome.value.t = "dict"
             /\ Get(prev.outcome.value, "number", None) = call.args["post_number"] ) =>
               /\ outcome.kind = "return"
               /\ outcome.value.t = "dict"
               /\ Get(outcome.value, "name", None)
                    = prev.call.args["payload"].v["name"]
        /\ ( /\ InClientAfter("get_post", "delete_post")
             /\ prev.call.args["post_number"] = call.args["post_number"] ) =>
               /\ outcome.kind = "raise"
               /\ outcome.exc = HTTPError(404, http[1].url)

C15_Witness ==
    /\ InClientAfter("get_post", "delete_post")
    /\ prev.call.args["post_number"] = PyInt(1)
    /\ call.args["post_number"] = PyInt(1)
    /\ pc = "done"
    /\ reply = NotFound
    /\ remote = [posts |-> [n \in {} |-> ""], next |-> 2]
    /\ outcome.kind = "raise"

\* The client method of the call in flight addresses one post.
OnePostCall == client_calls[1].method \in {"get_post", "update_post", "delete_post"}
PostAddressed == client_calls[1].args["post_number"].v

\* C16: when the service holds no post of the given number (0 included, which
\* is sent like any other number), get_post, update_post and delete_post each
\* raise the HTTPError of the 404, as raise_for_status made it; through
\* posts_get_detail, posts_update and posts_delete that error comes out as the
\* tool's RuntimeError, naming the operation and carrying the HTTPError.
C16_MissingPostIs404 ==
    [][( /\ pc = "waiting"
         /\ pc' = "done"
         /\ reply'.t = "response"
         /\ OnePostCall
         /\ PostAddressed \notin DOMAIN remote.posts ) =>
            LET e == HTTPError(404, PostUrl(PostAddressed))
            IN  /\ http = <<http[1]>>
                /\ http[1].url = PostUrl(PostAddressed)
                /\ client_out' = Raise(e)
                /\ call.layer = "client" => outcome' = Raise(e)
                /\ call.layer = "tool" =>
                     outcome' = Raise(Exc("RuntimeError",
                                          "Error " \o OperationName(call.op) \o ": " \o e.msg,
                                          e))
                /\ remote' = remote]_vars

C16_Witness ==
    /\ InTool("posts_delete")
    /\ call.args["post_number"] = PyInt(0)
    /\ pc = "done"
    /\ reply = NotFound
    /\ http[1].url = PostUrl(0)
    /\ client_out = Raise(HTTPError(404, PostUrl(0)))
    /\ outcome.kind = "raise"
    /\ outcome.exc.kind = "RuntimeError"

\* C17: whenever the response's status is not 2xx (1xx, 3xx, 4xx or 5xx), the
\* client operation raises a transport or status failure, returns no value,
\* and does not parse the response's body.
C17_NonSuccessStatusRaises ==
    ( /\ call.layer = "client"
      /\ pc = "done"
      /\ reply.t = "response"
      /\ ~(200 <= reply.status /\ reply.status < 300) ) =>
        /\ outcome.kind = "raise"
        /\ IsRequestException(outcome.exc)
        /\ json_calls = 0

\* The resource paths a request made through _request may carry.
HelperPaths ==
    {"/user", "/posts"} \cup {"/posts/" \o ToString(n.v) : n \in PostNumbers}

\* The client call went through _request: its request is the one _request
\* builds, base URL followed by a path, and it ended as _request ends.
ViaHelper ==
    /\ \E path \in HelperPaths :
         http[1] = _request(esa_client, http[1].method, path, http[1].kwargs)
    /\ LET ended == _request_return(http[1], reply)
       IN  /\ client_out = ended.outcome
           /\ json_calls = ended.json_calls
           /\ log = ended.log

ClientMethodEnded == call.layer = "client" /\ call.op # "__init__" /\ pc = "done"

\* C18 as stated: get_user, get_posts, get_post, create_post and update_post
\* each make their request through _request, base URL followed by the path;
\* delete_post is the one operation that does not.
C18_OnlyDeleteBypassesHelper ==
    ClientMethodEnded => (ViaHelper <=> call.op # "delete_post")

\* C18, amended: get_posts, get_post, create_post and update_post make their
\* request through _request, base URL followed by the path; get_user and
\* delete_post do not.  get_user requests the fixed URL of the user endpoint,
\* which is not under the team's base URL.
C18_PostCallsUseHelper ==
    ClientMethodEnded =>
        /\ ViaHelper <=> call.op \in {"get_posts", "get_post", "create_post", "update_post"}
        /\ call.op = "get_user" => http[1].url = "https://api.esa.io/v1/user"

C18_Witness ==
    /\ ClientMethodEnded
    /\ call.op = "get_user"
    /\ http[1].url = "https://api.esa.io/v1/user"
    /\ reply.t = "response"
    /\ outcome.kind = "return"
    /\ ~ViaHelper

\* C19: whenever the round trip of a client operation fails, the client logs
\* the failure and raises that same failure: it does not swallow it, raise
\* another error in its place, or return a value.
C19_FailureLoggedAndReraised ==
    (ClientMethodEnded /\ RoundTripFailed) =>
        LET e == IF reply.t = "raised" THEN reply.exc
                 ELSE HTTPError(reply.status, http[1].url)
        IN  /\ outcome = Raise(e)
            /\ Len(log) = 1
            /\ log[1].level = "error"
            /\ Contains(log[1].msg, e.msg)

\* The values posts_create's parameters are bound to: the arguments passed,
\* the declared defaults for those left out.
CreateBound(args) ==
    [name |-> args["name"],
     body_md |-> args["body_md"],
     tags |-> Arg(args, "tags", PyList(<<>>)),
     category |-> Arg(args, "category", PyStr("")),
     wip |-> Arg(args, "wip", PyBool(TRUE)),
     message |-> Arg(args, "message", PyStr(""))]

CreatePayload == client_calls[1].args["payload"].v

\* C20 as stated: the payload posts_create passes to create_post holds
\* exactly the fields whose value is not None, with their values: a field
\* passed as None is removed, while "", [] and false are kept.
C20_CreatePayloadStripsNull ==
    (InTool("posts_create") /\ esa_client # None) =>
        /\ InClient("create_post")
        /\ CreatePayload = StripNone(CreateBound(call.args))

\* C20, amended: tags is always in the payload, the empty list standing for
\* a tags passed as None; category, wip and message are removed when passed
\* as None; "", [] and false are kept.
C20_CreatePayloadKeepsTags ==
    (InTool("posts_create") /\ esa_client # None) =>
        LET bound == CreateBound(call.args)
        IN  /\ InClient("create_post")
            /\ CreatePayload =
                 StripNone([bound EXCEPT !["tags"] =
                               IF bound["tags"] = None THEN PyList(<<>>) ELSE bound["tags"]])
            /\ "tags" \in DOMAIN CreatePayload

C20_Witness ==
    /\ InTool("posts_create")
    /\ esa_client # None
    /\ call.args = [name |-> PyStr(""), body_md |-> PyStr("B"), tags |-> None,
                    category |-> None, wip |-> PyBool(FALSE)]
    /\ InClient("create_post")
    /\ CreatePayload = [name |-> PyStr(""), body_md |-> PyStr("B"),
                        tags |-> PyList(<<>>), wip |-> PyBool(FALSE),
                        message |-> PyStr("")]

\* C21: whenever the client call that user_get_info, posts_get_list,
\* posts_get_detail, posts_create or posts_update delegates to returns a
\* value, of whatever JSON shape, the tool returns that value and does not fail.
C21_ToolReturnsClientValue ==
    ( /\ ToolEnded
      /\ call.op \in {"user_get_info", "posts_get_list", "posts_get_detail",
                      "posts_create", "posts_update"}
      /\ client_out.kind = "return" ) =>
        outcome = Return(client_out.value)

\* The headers the session puts on a request: its own, under those the call passes.
WireHeaders(self, req) ==
    IF "headers" \in DOMAIN req.kwargs THEN req.kwargs["headers"] @@ self.headers
    ELSE self.headers

\* C22: once constructed, the client's token, team name, base URL and session
\* headers are changed by no client operation, whether it succeeds or fails;
\* so every request of every operation carries "Authorization: Bearer <token
\* given at construction>" and "Content-Type: application/json".
C22_ClientNeverMutated ==
    /\ [][/\ esa_client # Unbound => esa_client' = esa_client
          /\ (pc = "new" /\ esa_client' # Unbound) =>
               esa_client'.token = call'.args["token"].v]_vars
    /\ [](http # <<>> =>
            LET sent == WireHeaders(esa_client, http[1])
            IN  /\ {"Authorization", "Content-Type"} \subseteq DOMAIN sent
                /\ sent["Authorization"] = "Bearer " \o esa_client.token
                /\ sent["Content-Type"] = "application/json")

C22_Witness ==
    /\ ClientMethodEnded
    /\ call.op = "update_post"
    /\ outcome.kind = "raise"
    /\ esa_client.token = "tok2"
    /\ WireHeaders(esa_client, http[1])["Authorization"] = "Bearer tok2"

\* The request a thread's invocation is to send, from its own arguments.
OwnRequest(c) ==
    LET base == "https://api.esa.io/v1/teams/team"
    IN  CASE c.op = "posts_get_list" ->
               <<Request("GET", base \o "/posts", [params |-> PyDict(c.args)])>>
          [] c.op = "posts_get_detail" ->
               <<Request("GET", base \o "/posts/" \o ToString(c.args["post_number"].v),
                         NoKwargs)>>
          [] c.op = "posts_update" ->
               IF "name" \in DOMAIN c.args
               THEN <<Request("PATCH",
                              base \o "/posts/" \o ToString(c.args["post_number"].v),
                              [json |-> PyDict([post |->
                                  PyDict([name |-> c.args["name"]])])])>>
               ELSE <<>>

\* C23: with several tool invocations running side by side on the one client,
\* under every interleaving each invocation sends the request built from its
\* own arguments and returns, or wraps, the answer to its own request; a step
\* of one invocation changes nothing of another, and no lock is involved.
C23_InvocationsIndependent ==
    /\ [](\A i \in DOMAIN threads :
            LET t == threads[i]
            IN  /\ t.pc \in {"waiting", "done"} => t.http = OwnRequest(t.call)
                /\ (t.pc = "done" /\ t.http # <<>>) =>
                     /\ t.client_out =
                          ClientReturn(t.client_calls[1], t.http[1], t.reply).outcome
                     /\ t.client_out.kind = "return" =>
                          t.outcome = Return(t.client_out.value)
                              \/ t.outcome.kind = "raise"
                     /\ t.client_out.kind = "raise" =>
                          /\ t.outcome.kind = "raise"
                          /\ t.outcome.exc.cause = t.client_out.exc
                /\ (t.pc = "done" /\ t.http = <<>>) =>
                     t.outcome = Return(NothingChanged(t.call.args["post_number"])))
    /\ [][\A i \in DOMAIN threads :
            LET t == threads[i]
                u == threads'[i]
            IN  (t.pc # "idle" /\ u.pc # "idle") =>
                  /\ u.call = t.call
                  /\ t.http # <<>> => u.http = t.http
                  /\ t.pc = "done" => u = t]_vars

C23_Witness ==
    /\ threads # NoThreads
    /\ threads["a"].pc = "done"
    /\ threads["b"].pc = "done"
    /\ threads["a"].call.op = "posts_update"
    /\ threads["a"].http # <<>>
    /\ threads["a"].outcome.kind = "return"
    /\ threads["b"].call.op = "posts_get_list"
    /\ threads["b"].outcome.kind = "raise"
    /\ threads["b"].reply # threads["a"].reply

\* The transport answered with a response that passes the status check and
\* whose body is JSON.
Succeeded ==
    /\ pc = "done"
    /\ reply.t = "response"
    /\ ~raise_for_status(reply.status)
    /\ json_parses(reply.body)

\* C24: get_user sends one GET to https://api.esa.io/v1/user, whatever the
\* client's team name, with no further request argument, and on success
\* returns the parsed JSON body as it is.
C24_GetUserFixedEndpoint ==
    (call.layer = "client" /\ call.op = "get_user") =>
        /\ http = <<Request("GET", "https://api.esa.io/v1/user", NoKwargs)>>
        /\ Succeeded =>
             /\ outcome = Return(reply.body.v)
             /\ json_calls = 1

C24_Witness ==
    /\ call.layer = "client"
    /\ call.op = "get_user"
    /\ esa_client.team_name = "team2"
    /\ Succeeded
    /\ outcome = Return(PyDict([url |-> PyStr("https://t.esa.io/posts/1"),
                                name |-> PyStr("T")]))

\* C25: for every post number and payload, update_post sends one PATCH to
\* /posts/<post_number> with the body {"post": payload} and get_post one GET
\* to /posts/<post_number>; the number is put into the path as it is, the
\* payload is sent unchanged, and on success each returns the parsed body.
C25_UpdateAndGetAddressThePost ==
    (call.layer = "client" /\ call.op \in {"update_post", "get_post"}) =>
        LET url == "https://api.esa.io/v1/teams/" \o esa_client.team_name
                     \o "/posts/" \o ToString(call.args["post_number"].v)
        IN  /\ call.op = "update_post" =>
                 http = <<Request("PATCH", url,
                                  [json |-> PyDict([post |-> call.args["payload"]])])>>
            /\ call.op = "get_post" => http = <<Request("GET", url, NoKwargs)>>
            /\ Succeeded =>
                 /\ outcome = Return(reply.body.v)
                 /\ json_calls = 1

C25_Witness ==
    /\ call.layer = "client"
    /\ call.op = "update_post"
    /\ call.args = [post_number |-> PyInt(1), payload |-> PyDict([name |-> PyStr("U")])]
    /\ http[1].url = "https://api.esa.io/v1/teams/team2/posts/1"
    /\ Succeeded
    /\ outcome = Return(PyList(<<>>))

\* A posts_create, posts_update or posts_delete invocation ends with an error.
WriteToolFails ==
    /\ pc = "waiting"
    /\ pc' = "done"
    /\ call.layer = "tool"
    /\ call.op \in {"posts_create", "posts_update", "posts_delete"}
    /\ outcome'.kind = "raise"

C27_InitCheckBeforeEmptyPayload ==
    (InTool("posts_update") /\ esa_client = None /\ FieldsSet(call.args) = {}) =>
        /\ pc = "done"
        /\ outcome = Raise(NotInitializedError)
        /\ outcome # Return(NothingChanged(call.args["post_number"]))
        /\ http = <<>>

C27_Witness ==
    /\ InTool("posts_update")
    /\ esa_client = None
    /\ call.args = [post_number |-> PyInt(1), name |-> None]
    /\ outcome = Raise(NotInitializedError)

JsonReturning == {"get_user", "get_posts", "get_post", "create_post", "update_post"}

\* C28: get_user, get_posts, get_post, create_post and update_post return a
\* value only when the response passed the status check and its body parsed
\* as JSON, and the value is that parsed body; a response that passes the
\* status check with a body that is empty or no JSON makes them raise.
C28_ValueOnlyFromParsedBody ==
    (call.layer = "client" /\ call.op \in JsonReturning /\ pc = "done") =>
        /\ outcome.kind = "return" =>
             /\ Succeeded
             /\ outcome.value = reply.body.v
        /\ ( /\ reply.t = "response"
             /\ ~raise_for_status(reply.status)
             /\ ~json_parses(reply.body) ) =>
               /\ outcome = Raise(JSONDecodeError)
               /\ json_calls = 1

C28_Witness ==
    /\ call.layer = "client"
    /\ call.op = "create_post"
    /\ pc = "done"
    /\ reply = Response(204, EmptyBody)
    /\ outcome = Raise(JSONDecodeError)

\* C29: with a transport that answers or fails every request in the end,
\* every tool invocation ends, and ends with one outcome: a returned result
\* or a raised RuntimeError, not both and not neither.
C29_EveryInvocationEnds ==
    /\ (call.layer = "tool") ~> ToolEnded
    /\ [](ToolEnded =>
            \/ outcome.kind = "return" /\ DOMAIN outcome = {"kind", "value"}
            \/ /\ outcome.kind = "raise"
               /\ DOMAIN outcome = {"kind", "exc"}
               /\ outcome.exc.kind = "RuntimeError")
    /\ [](call.layer = "tool" /\ pc # "done" => outcome = Pending)

C29_Witness ==
    /\ ToolEnded
    /\ call.op = "posts_get_detail"
    /\ reply = Raised(Exc("Exception", "API Error", NoCause))
    /\ outcome.kind = "raise"
    /\ outcome.exc.kind = "RuntimeError"

====
